---- MODULE Spec2Model ----
(***************************************************************************)
(* Telegram -> Spotify playlist bot (bot_spotify.py).                      *)
(*                                                                         *)
(* The model follows one handler invocation at a time (handle_text adds,   *)
(* cmd_remove removes), one step per external HTTP call, against a remote  *)
(* playlist, a catalog and the process-wide token cache.  Further          *)
(* specifications start the process in any environment (SpecStartup),      *)
(* score a wider catalog (SpecScore), follow several commands through      *)
(* get_access_token (SpecTasks), and let another actor edit the playlist   *)
(* during a scan (SpecEdit).                                               *)
(*                                                                         *)
(* Texts (queries, titles, artist names) are sequences of lexemes: the     *)
(* maximal runs of word characters that _word_re matches, and the          *)
(* punctuation between them.  Scores are kept in twentieths (1.0 = 20), so *)
(* that 0.5, 0.25, 0.75 and 0.3 are the integers 10, 5, 15 and 6.  Every   *)
(* partial sum before the final +0.3 is a multiple of 0.25 and exact in    *)
(* binary floating point, so the integer order is the order the            *)
(* interpreter computes.                                                   *)
(***************************************************************************)
EXTENDS Integers, Sequences, FiniteSets, TLC

VARIABLES
    playlist,   \* the remote playlist: the sequence of its track ids
    cache,      \* _SPOTIFY_TOKEN_CACHE
    now,        \* time.time()
    pc,         \* position of the running handler ("idle" when none runs)
    inv,        \* locals of the running handler
    calls,      \* external calls issued by the current invocation, in order
    term,       \* terminal state of the current invocation ("none" while it runs)
    replies,    \* reply_text messages sent by the current invocation
    prev,       \* summary of the invocation completed before the current one
    env,        \* os.environ: the settings that are set, each with its text
    tasks,      \* the commands being handled at once, each at its call of get_access_token
    ext         \* what another actor did to the playlist during the running scan

vars == <<playlist, cache, now, pc, inv, calls, term, replies, prev, env, tasks, ext>>

None == "None"

----------------------------------------------------------------------------
(* Bounds of the model *)

MaxLen == 2        \* longest initial playlist
PageLimit == 1     \* page size of the playlist listing (the code asks for 100)
MaxItems == 2      \* longest search answer (the code asks for at most 5)
MaxTicks == 1      \* how many times the clock advances
MaxTasks == 2      \* how many commands are being handled at once
MaxEdits == 1      \* how many times another actor edits the playlist during an invocation
TickSeconds == 3300 \* by how much the clock advances at a time

----------------------------------------------------------------------------
(* Program constants *)

TokenTTL == 3300           \* time.time() + 3300
Threshold == 20            \* best_score >= 1.0
TokenWeight == 20          \* len(q & t)
ArtistWeight == 10         \* 0.5 * len(q & a)
ParenBonus == 5            \* base += 0.25
FlagPenalty == 15          \* base -= 0.75
FirstArtistBonus == 6      \* base += 0.3
\* -1e9 in the source; any value below the least score (-0.75) acts the same
BestScoreInit == -1000000

----------------------------------------------------------------------------
(* Texts *)

\* the lexemes _word_re matches
WordLexemes ==
    {"love", "Love", "live", "Live", "abba", "Abba", "queen", "Queen", "song", "Song",
     "https", "open", "spotify", "com", "track", "t1", "t2", "t3"}

IsWord(x) == x \in WordLexemes

\* str.lower() on a word lexeme
lower(w) ==
    CASE w = "Love" -> "love"
      [] w = "Live" -> "live"
      [] w = "Abba" -> "abba"
      [] w = "Queen" -> "queen"
      [] w = "Song" -> "song"
      [] OTHER -> w

Range(s) == {s[i] : i \in 1..Len(s)}

\* tokenize: the word runs of s, lower-cased, in order
tokenize(s) ==
    LET ws == SelectSeq(s, IsWord)
    IN  [i \in 1..Len(ws) |-> lower(ws[i])]

\* str.strip(): leading and trailing blanks dropped
RECURSIVE strip(_)
strip(s) ==
    IF s = <<>> THEN s
    ELSE IF Head(s) = " " THEN strip(Tail(s))
    ELSE IF s[Len(s)] = " " THEN strip(SubSeq(s, 1, Len(s) - 1))
    ELSE s

\* least index >= i at which pat occurs in s, 0 when there is none
RECURSIVE find(_, _, _)
find(s, pat, i) ==
    IF i + Len(pat) - 1 > Len(s) THEN 0
    ELSE IF SubSeq(s, i, i + Len(pat) - 1) = pat THEN i
    ELSE find(s, pat, i + 1)

\* the prefix of s before the first lexeme in stops
RECURSIVE upTo(_, _)
upTo(s, stops) ==
    IF s = <<>> \/ Head(s) \in stops THEN <<>>
    ELSE <<Head(s)>> \o upTo(Tail(s), stops)

\* "".join(s)
RECURSIVE join(_)
join(s) == IF s = <<>> THEN "" ELSE Head(s) \o join(Tail(s))

\* urlparse(text).path: after scheme and host, before the query or fragment
urlpath(text) ==
    LET rest == IF Len(text) >= 2 /\ text[2] = "://"
                THEN LET host == upTo(SubSeq(text, 3, Len(text)), {"/", "?", "#"})
                     IN  SubSeq(text, 3 + Len(host), Len(text))
                ELSE text
    IN  upTo(rest, {"?", "#"})

HostTrack == <<"open", ".", "spotify", ".", "com", "/", "track", "/">>
SlashTrack == <<"/", "track", "/">>
UriHead == <<"spotify", ":", "track", ":">>

\* extract_track_id_from_url: the id of a link or URI, None, or "" (no id after /track/)
extract_track_id_from_url(text0) ==
    LET text == strip(text0)
    IN  IF find(text, HostTrack, 1) # 0
        THEN LET path == urlpath(text)
                 at == find(path, SlashTrack, 1)
             IN  IF at = 0 THEN None   \* IndexError, caught
                 ELSE join(upTo(SubSeq(path, at + 3, Len(path)), {"/"}))
        ELSE IF Len(text) >= 5 /\ SubSeq(text, 1, 4) = UriHead /\ IsWord(text[5])
             THEN text[5]
             ELSE None

\* Python truth of a track id: None and "" are false
Truthy(tid) == tid # None /\ tid # ""

----------------------------------------------------------------------------
(* Scoring *)

Flags == {"live", "remix", "karaoke", "version", "acoustic"}

\* re.findall(r"\(([^)]+)\)", query): the tokens of every bracketed group, in order
RECURSIVE parenTokens(_)
parenTokens(s) ==
    IF s = <<>> THEN <<>>
    ELSE IF Head(s) # "(" THEN parenTokens(Tail(s))
    ELSE LET grp == upTo(Tail(s), {")"})
         IN  IF grp = <<>> \/ Len(grp) = Len(s) - 1
             THEN parenTokens(Tail(s))      \* "()" or no closing bracket: no match here
             ELSE tokenize(grp) \o parenTokens(SubSeq(s, Len(grp) + 3, Len(s)))

\* tokens of all the artists
RECURSIVE artistTokens(_)
artistTokens(artists) ==
    IF artists = <<>> THEN {}
    ELSE Range(tokenize(Head(artists))) \cup artistTokens(Tail(artists))

\* score_match(query, title, artists), in twentieths
score_match(query, title, artists) ==
    LET q == Range(tokenize(query))
        t == Range(tokenize(title))
        a == artistTokens(artists)
        overlap == TokenWeight * Cardinality(q \cap t) + ArtistWeight * Cardinality(q \cap a)
        pt == parenTokens(query)
        paren == ParenBonus * Cardinality({i \in 1..Len(pt) : pt[i] \in t \/ pt[i] \in a})
        q_has_flag == Flags \cap q # {}
        penalty == IF ~q_has_flag /\ Flags \cap t # {} THEN FlagPenalty ELSE 0
        first == Range(tokenize(artists[1]))
        bonus == IF first # {} /\ first \cap q # {} THEN FirstArtistBonus ELSE 0
    IN  overlap + paren - penalty + bonus

----------------------------------------------------------------------------
(* The catalog *)

T1 == [id |-> "t1", name |-> <<"Love">>, artists |-> << <<"Abba">> >>]
T2 == [id |-> "t2", name |-> <<"Love", " ", "(", "Live", ")">>, artists |-> << <<"Abba">> >>]
T3 == [id |-> "t3", name |-> <<"Love">>, artists |-> << <<"Queen">> >>]

Catalog == {T1, T2, T3}
TrackIds == {tr.id : tr \in Catalog}
TrackOf(id) == CHOOSE tr \in Catalog : tr.id = id

\* the answers a search may give: up to MaxItems distinct tracks, in any order
RECURSIVE SeqsUpTo(_, _)
SeqsUpTo(S, n) ==
    IF n = 0 THEN {<<>>}
    ELSE LET shorter == SeqsUpTo(S, n - 1)
         IN  shorter \cup {Append(s, x) : s \in {u \in shorter : Len(u) = n - 1}, x \in S}

NoDup(s) == \A i, j \in 1..Len(s) : s[i] = s[j] => i = j

SearchAnswers == {s \in SeqsUpTo(Catalog, MaxItems) : NoDup(s)}

\* further tracks of the catalog: a title that itself holds a flag word, its live
\* recording, and a title written in a script outside _word_re's character
\* class (the lexeme stands for the one character U+611B)
T4 == [id |-> "t4", name |-> <<"Live", " ", "Song">>, artists |-> << <<"Abba">> >>]
T5 == [id |-> "t5", name |-> <<"Live", " ", "Song", " ", "(", "Live", ")">>,
       artists |-> << <<"Abba">> >>]
T6 == [id |-> "t6", name |-> <<"U+611B">>, artists |-> << <<"Abba">> >>]

ScoreCatalog == Catalog \cup {T4, T5, T6}
ScoreIds == {tr.id : tr \in ScoreCatalog}
ScoreAnswers == {s \in SeqsUpTo(ScoreCatalog, MaxItems) : NoDup(s)}

\* mutant: the loop keeps a candidate that is as good as the best so far (>=)
RECURSIVE bestOf_LastWins(_, _, _, _, _)
bestOf_LastWins(q, items, i, best, best_score) ==
    IF i > Len(items) THEN <<best, best_score>>
    ELSE LET s == score_match(q, items[i].name, items[i].artists)
         IN  IF s >= best_score
             THEN bestOf_LastWins(q, items, i + 1, items[i].id, s)
             ELSE bestOf_LastWins(q, items, i + 1, best, best_score)

\* the loop of search_track over items[i..], keeping the first strictly better candidate
RECURSIVE bestOf(_, _, _, _, _)
bestOf(q, items, i, best, best_score) ==
    IF i > Len(items) THEN <<best, best_score>>
    ELSE LET s == score_match(q, items[i].name, items[i].artists)
         IN  IF s > best_score
             THEN bestOf(q, items, i + 1, items[i].id, s)
             ELSE bestOf(q, items, i + 1, best, best_score)

\* what search_track returns for a 200 answer with these items: the id of the
\* track it returns, or None
select(q, items) ==
    IF items = <<>> THEN None
    ELSE LET r == bestOf(q, items, 1, None, BestScoreInit)
         IN  IF r[1] # None /\ r[2] >= Threshold THEN r[1] ELSE None

----------------------------------------------------------------------------
(* The queries a user sends *)

QLove == <<"love">>
QLoveAbba == <<"Love", " ", "-", " ", "Abba">>
QLink == <<"https", "://", "open", ".", "spotify", ".", "com", "/", "track", "/", "t1", "?", "si">>
QUri == <<" ", "spotify", ":", "track", ":", "t2">>
QBlank == <<" ">>

Queries == {QLove, QLoveAbba, QLink, QUri, QBlank}

QSongAbba == <<"Song", " ", "-", " ", "Abba">>

\* the text "title - artist" a user writes for a track
TitleArtist(tr) == tr.name \o <<" ", "-", " ">> \o tr.artists[1]

ScoreQueries == {QSongAbba} \cup {TitleArtist(tr) : tr \in ScoreCatalog}

----------------------------------------------------------------------------
(* HTTP *)

\* what a call can come back with: a status code, or 0 for no response at all
\* (requests raises a timeout or connection error)
Outcomes == {0, 200, 304, 404}

\* Response.raise_for_status() raises HTTPError
raise_for_status(st) == st \in 400..599

\* Response.json() finds a document: the API sends one with a success status only
has_json(st) == st \in 200..299

\* how `requests.x(...); r.raise_for_status(); r.json()` ends:
\* "ok", "http" (HTTPError) or "other" (any other exception)
CallEnd(st) ==
    IF st = 0 THEN "other"
    ELSE IF raise_for_status(st) THEN "http"
    ELSE IF has_json(st) THEN "ok"
    ELSE "other"

\* the record of one external call: the operation, how it came back, the track
\* id it names, and for a page fetch its offset, its items and whether the page
\* carries a next link
Call(op, st, arg, off, items, next) ==
    [op |-> op, status |-> st, arg |-> arg, off |-> off, items |-> items, next |-> next]

Ids(items) == [i \in 1..Len(items) |-> items[i].id]

Reply(msg, code, track) == [msg |-> msg, code |-> code, track |-> track]

----------------------------------------------------------------------------
(* The handlers *)

\* kind: the handler; q: its text; tid: what extract_track_id_from_url gave;
\* tr: the id of the track search_track returned; url: the offset of the page
\* track_in_playlist fetches next; inpl: what track_in_playlist returned;
\* absent0: whether tr was missing from the playlist when it was resolved
NoInv == [kind |-> "none", q |-> <<>>, tid |-> None, tr |-> None, url |-> 0,
          inpl |-> None, absent0 |-> FALSE]

Count(op) == Cardinality({i \in 1..Len(calls) : calls[i].op = op})

\* no call of the current invocation failed
Clean == \A i \in 1..Len(calls) : calls[i].status \in 200..299

NoPrev == [kind |-> "none", q |-> <<>>, term |-> "none", tr |-> None, adds |-> 0,
           absent0 |-> FALSE]

\* what is remembered of the invocation that just ended, when none of its calls failed
Summary ==
    IF term \in {"none", "NoQuery"} \/ ~Clean THEN NoPrev
    ELSE [kind |-> inv.kind, q |-> inv.q, term |-> term, tr |-> inv.tr,
          adds |-> Count("add"), absent0 |-> inv.absent0]

\* the settings main requires, and the optional one
Required == {"TELEGRAM_BOT_TOKEN", "SPOTIFY_CLIENT_ID", "SPOTIFY_CLIENT_SECRET",
             "SPOTIFY_REFRESH_TOKEN", "SPOTIFY_PLAYLIST_ID"}
Optional == {"SPOTIFY_MARKET"}

\* the texts a setting may be set to: empty, blank, or a value with a blank before it
EnvValues == {<<>>, <<" ">>, <<" ", "v">>}

\* os.environ: some of the settings, each with a text
Environments == UNION {[S -> EnvValues] : S \in SUBSET (Required \cup Optional)}

\* os.getenv(name, default)
getenv(name, default) == IF name \in DOMAIN env THEN env[name] ELSE default

\* BOT_TOKEN, CLIENT_ID, CLIENT_SECRET, REFRESH_TOKEN, SPOTIFY_PLAYLIST_ID
Setting(name) == strip(getenv(name, <<>>))

MX == <<"MX">>

\* mutant: a blank region code is kept
MARKET_KeepsBlank == strip(getenv("SPOTIFY_MARKET", MX))

MARKET ==
    LET m == strip(getenv("SPOTIFY_MARKET", MX))
    IN  IF m = <<>> THEN MX ELSE m

\* missing, in main
Missing == {k \in Required : Setting(k) = <<>>}

\* an environment with every required setting, and no region code
EnvSet == [k \in Required |-> <<"v">>]

\* no command is followed on its own
NoTasks == <<>>

\* no scan is observed
NoExt == [edits |-> 0, seen |-> FALSE, always |-> FALSE]

Init ==
    /\ playlist \in SeqsUpTo(TrackIds, MaxLen)
    /\ cache = [access |-> None, exp |-> 0]
    /\ now = 0
    /\ pc = "idle"
    /\ inv = NoInv
    /\ calls = <<>>
    /\ term = "none"
    /\ replies = <<>>
    /\ prev = NoPrev
    /\ env = EnvSet
    /\ tasks = NoTasks
    /\ ext = NoExt

\* the handler returns after this reply
Finish(state, reply) ==
    /\ pc' = "idle"
    /\ term' = state
    /\ replies' = Append(replies, reply)

\* mutant: every failure is reported by the generic except clause
Fail_NoCode(st) == Finish("Failed", Reply("Error", 0, None))

\* the except clauses of handle_text and cmd_remove
Fail(st) ==
    Finish("Failed", IF CallEnd(st) = "http" THEN Reply("ErrorHTTP", st, None)
                     ELSE Reply("Error", 0, None))

\* a message or a /remove command arrives: handle_text / cmd_remove up to search_track
Begin(k, q) ==
    /\ pc = "idle"
    /\ calls' = <<>>
    /\ LET text == strip(q)
       IN  IF text = <<>>
           THEN /\ inv' = [NoInv EXCEPT !.kind = k]
                /\ term' = "NoQuery"
                /\ replies' = IF k = "remove" THEN <<Reply("Usage", 0, None)>> ELSE <<>>
                /\ pc' = "idle"
           ELSE /\ inv' = [NoInv EXCEPT !.kind = k, !.q = text,
                                         !.tid = extract_track_id_from_url(text)]
                /\ term' = "none"
                /\ replies' = <<>>
                /\ pc' = "tok_search"
    /\ UNCHANGED <<playlist, cache, now, env, tasks, ext>>

Start(k, q) == Begin(k, q) /\ UNCHANGED prev

\* the same, remembering the invocation before
StartAgain(k, q) == Begin(k, q) /\ prev' = Summary

\* mutant: cmd_remove deletes without looking the track up in the playlist
AfterToken_RemoveSkipsScan ==
    CASE pc = "tok_search" -> IF Truthy(inv.tid) THEN "getTrack" ELSE "search"
      [] pc = "tok_scan" -> IF inv.kind = "remove" THEN "remove" ELSE "page"
      [] pc = "tok_add" -> "add"
      [] pc = "tok_remove" -> "remove"

\* where the caller of get_access_token goes on
AfterToken ==
    CASE pc = "tok_search" -> IF Truthy(inv.tid) THEN "getTrack" ELSE "search"
      [] pc = "tok_scan" -> "page"
      [] pc = "tok_add" -> "add"
      [] pc = "tok_remove" -> "remove"

\* mutant: a cached token is used whatever its age
CacheFresh_IgnoresExpiry == cache.access # None

\* the cached token is usable
CacheFresh == cache.access # None /\ now < cache.exp

\* get_access_token, called first by search_track, track_in_playlist,
\* add_to_playlist and remove_from_playlist
GetAccessToken ==
    /\ pc \in {"tok_search", "tok_scan", "tok_add", "tok_remove"}
    /\ IF CacheFresh
       THEN /\ pc' = AfterToken
            /\ UNCHANGED <<cache, calls, term, replies>>
       ELSE \E st \in Outcomes :
            /\ calls' = Append(calls, Call("token", st, "", 0, <<>>, FALSE))
            /\ IF CallEnd(st) = "ok"
               THEN /\ cache' = [access |-> "tok", exp |-> now + TokenTTL]
                    /\ pc' = AfterToken
                    /\ UNCHANGED <<term, replies>>
               ELSE /\ Fail(st)
                    /\ UNCHANGED cache
    /\ UNCHANGED <<playlist, now, inv, prev, env, tasks, ext>>

\* mutant: the add handler skips the membership check
Resolved_SkipScan(id) ==
    /\ inv' = [inv EXCEPT !.tr = id, !.absent0 = id \notin Range(playlist)]
    /\ pc' = IF inv.kind = "add" THEN "tok_add" ELSE "tok_scan"
    /\ UNCHANGED <<term, replies>>

\* search_track returned this track: the handler goes on to track_in_playlist
Resolved(id) ==
    /\ inv' = [inv EXCEPT !.tr = id, !.absent0 = id \notin Range(playlist)]
    /\ pc' = "tok_scan"
    /\ UNCHANGED <<term, replies>>

\* search_track, the direct branch: GET /v1/tracks/{tid}
GetTrack ==
    /\ pc = "getTrack"
    /\ \E st \in Outcomes :
        /\ st = 200 => inv.tid \in TrackIds
        /\ calls' = Append(calls, Call("getTrack", st, inv.tid, 0, <<>>, FALSE))
        /\ IF st = 200 THEN Resolved(inv.tid)
           ELSE IF st = 0 \/ raise_for_status(st) THEN Fail(st) /\ UNCHANGED inv
           ELSE pc' = "search" /\ UNCHANGED <<inv, term, replies>>
    /\ UNCHANGED <<playlist, cache, now, prev, env, tasks, ext>>

\* mutant: an empty answer is followed by a wider search (up to three calls)
SearchIn_Widening(answers) ==
    /\ pc = "search"
    /\ \E st \in Outcomes :
        IF CallEnd(st) = "ok"
        THEN \E items \in answers :
             /\ calls' = Append(calls, Call("search", st, "", 0, Ids(items), FALSE))
             /\ LET tr == select(inv.q, items)
                IN  IF items = <<>> /\ Count("search") < 2
                    THEN UNCHANGED <<pc, inv, term, replies>>
                    ELSE IF tr = None
                    THEN Finish("Unresolved", Reply("NotFound", 0, None)) /\ UNCHANGED inv
                    ELSE Resolved(tr)
        ELSE /\ calls' = Append(calls, Call("search", st, "", 0, <<>>, FALSE))
             /\ Fail(st)
             /\ UNCHANGED inv
    /\ UNCHANGED <<playlist, cache, now, prev, env, tasks, ext>>

\* search_track, the search branch: GET /v1/search answering with one of answers,
\* then the choice by score
SearchIn(answers) ==
    /\ pc = "search"
    /\ \E st \in Outcomes :
        IF CallEnd(st) = "ok"
        THEN \E items \in answers :
             /\ calls' = Append(calls, Call("search", st, "", 0, Ids(items), FALSE))
             /\ LET tr == select(inv.q, items)
                IN  IF tr = None
                    THEN Finish("Unresolved", Reply("NotFound", 0, None)) /\ UNCHANGED inv
                    ELSE Resolved(tr)
        ELSE /\ calls' = Append(calls, Call("search", st, "", 0, <<>>, FALSE))
             /\ Fail(st)
             /\ UNCHANGED inv
    /\ UNCHANGED <<playlist, cache, now, prev, env, tasks, ext>>

Search == SearchIn(SearchAnswers)

\* mutant: the page is compared without its last item
PageItems_DropsLast(off) ==
    SubSeq(playlist, off + 1, (IF off + PageLimit < Len(playlist) THEN off + PageLimit
                               ELSE Len(playlist)) - 1)

\* the page of the playlist at offset off: its items (each with a track id), and
\* whether a next link follows
PageItems(off) ==
    SubSeq(playlist, off + 1, IF off + PageLimit < Len(playlist) THEN off + PageLimit
                              ELSE Len(playlist))
\* mutant: the next link is followed whatever the page says
PageNext_Always(off) == TRUE

\* mutant: the listing never carries a next link, so only the first page is read
PageNext_FirstPageOnly(off) == FALSE

\* mutant: the next link is dropped one page too early
PageNext_OffByOne(off) == off + 2 * PageLimit < Len(playlist)

PageNext(off) == off + PageLimit < Len(playlist)

\* track_in_playlist: one turn of its loop, GET of the page at inv.url
Page ==
    /\ pc = "page"
    /\ \E st \in Outcomes :
        /\ calls' = Append(calls,
                IF CallEnd(st) = "ok"
                THEN Call("page", st, "", inv.url, PageItems(inv.url), PageNext(inv.url))
                ELSE Call("page", st, "", inv.url, <<>>, FALSE))
        /\ IF CallEnd(st) # "ok" THEN Fail(st) /\ UNCHANGED inv
           ELSE IF inv.tr \in Range(PageItems(inv.url))
           THEN \* return True
                /\ inv' = [inv EXCEPT !.inpl = "True"]
                /\ IF inv.kind = "add"
                   THEN Finish("AlreadyPresent", Reply("AlreadyPresent", 0, inv.tr))
                   ELSE pc' = "tok_remove" /\ UNCHANGED <<term, replies>>
           ELSE IF PageNext(inv.url)
           THEN /\ inv' = [inv EXCEPT !.url = inv.url + PageLimit]
                /\ UNCHANGED <<pc, term, replies>>
           ELSE \* return False
                /\ inv' = [inv EXCEPT !.inpl = "False"]
                /\ IF inv.kind = "add"
                   THEN pc' = "tok_add" /\ UNCHANGED <<term, replies>>
                   ELSE Finish("NotPresent", Reply("NotPresent", 0, None))
    /\ UNCHANGED <<playlist, cache, now, prev, env, tasks, ext>>

\* whether the server carried a mutating request out: always with a success
\* status, never with another status, either way when no response came back
Applied(st) == IF st = 0 THEN BOOLEAN ELSE {st \in 200..299}

\* add_to_playlist: POST of the track's URI
Add ==
    /\ pc = "add"
    /\ \E st \in Outcomes : \E applied \in Applied(st) :
        /\ calls' = Append(calls, Call("add", st, inv.tr, 0, <<>>, FALSE))
        /\ playlist' = IF applied THEN Append(playlist, inv.tr) ELSE playlist
        /\ IF CallEnd(st) = "ok" THEN Finish("Added", Reply("Added", 0, inv.tr))
           ELSE Fail(st)
    /\ UNCHANGED <<cache, now, inv, prev, env, tasks, ext>>

\* remove_from_playlist: DELETE of the track's URI, which removes every occurrence
Remove ==
    /\ pc = "remove"
    /\ \E st \in Outcomes : \E applied \in Applied(st) :
        /\ calls' = Append(calls, Call("remove", st, inv.tr, 0, <<>>, FALSE))
        /\ playlist' = IF applied THEN SelectSeq(playlist, LAMBDA x : x # inv.tr)
                       ELSE playlist
        /\ IF CallEnd(st) = "ok" THEN Finish("Removed", Reply("Removed", 0, inv.tr))
           ELSE Fail(st)
    /\ UNCHANGED <<cache, now, inv, prev, env, tasks, ext>>

\* time passes
Tick ==
    /\ now < MaxTicks * TickSeconds
    /\ now' = now + TickSeconds
    /\ UNCHANGED <<playlist, cache, pc, inv, calls, term, replies, prev, env, tasks, ext>>

Next ==
    \/ \E k \in {"add", "remove"}, q \in Queries : Start(k, q)
    \/ GetAccessToken
    \/ GetTrack
    \/ Search
    \/ Page
    \/ Add
    \/ Remove
    \/ Tick

Spec == Init /\ [][Next]_vars

\* track_in_playlist alone: a handler that has just resolved its query (through one
\* search, at time 0) to any track, before any playlist, with the token it
\* fetched still fresh or expired since
InitScan ==
    /\ playlist \in SeqsUpTo(TrackIds, MaxLen)
    /\ cache = [access |-> "tok", exp |-> TokenTTL]
    /\ now \in {0, TokenTTL}
    /\ pc = "tok_scan"
    /\ \E k \in {"add", "remove"}, id \in TrackIds :
          /\ inv = [NoInv EXCEPT !.kind = k, !.q = QLoveAbba, !.tr = id,
                                  !.absent0 = id \notin Range(playlist)]
          /\ calls = <<Call("token", 200, "", 0, <<>>, FALSE),
                       Call("search", 200, "", 0, <<id>>, FALSE)>>
    /\ term = "none"
    /\ replies = <<>>
    /\ prev = NoPrev
    /\ env = EnvSet
    /\ tasks = NoTasks
    /\ ext = NoExt

NextScan ==
    \/ GetAccessToken
    \/ Page

\* each HTTP call of a running handler comes back, or times out after 20 s
SpecScan == InitScan /\ [][NextScan]_vars /\ WF_vars(GetAccessToken) /\ WF_vars(Page)

\* messages only (no /remove), each invocation remembering the one before
NextTwice ==
    \/ \E q \in Queries : StartAgain("add", q)
    \/ GetAccessToken
    \/ GetTrack
    \/ Search
    \/ Page
    \/ Add
    \/ Tick

SpecTwice == Init /\ [][NextTwice]_vars

\* main: the configuration check, then the handlers are registered and polling starts
Main ==
    /\ pc = "boot"
    /\ pc' = IF Missing # {} THEN "crashed" ELSE "idle"
    /\ UNCHANGED <<playlist, cache, now, inv, calls, term, replies, prev, env, tasks, ext>>

\* the process from its start, in any environment
InitStartup ==
    /\ playlist = <<>>
    /\ cache = [access |-> None, exp |-> 0]
    /\ now = 0
    /\ pc = "boot"
    /\ inv = NoInv
    /\ calls = <<>>
    /\ term = "none"
    /\ replies = <<>>
    /\ prev = NoPrev
    /\ env \in Environments
    /\ tasks = NoTasks
    /\ ext = NoExt

\* startup, then the handlers up to their first call of get_access_token
NextStartup ==
    \/ Main
    \/ \E k \in {"add", "remove"}, q \in Queries : Start(k, q)
    \/ GetAccessToken

SpecStartup == InitStartup /\ [][NextStartup]_vars

\* the commands whose updates have arrived
Tasks == 1..MaxTasks

\* a command before its handler calls get_access_token: at, where it stands
\* ("pending", "refresh" while its POST is in flight, "done" with a token,
\* "failed"); observed, the cache as line 36 read it; refreshed, whether it
\* issued the POST
NewTask == [at |-> "pending", observed |-> None, refreshed |-> FALSE]

\* mutant: handlers run on threads of their own
Runnable_Preemptive(p) == TRUE

\* the event loop can run the handler of p: get_access_token is a plain function
\* and requests.post blocks the only thread, so no handler runs while another
\* one waits for its refresh
Runnable(p) == \A r \in Tasks \ {p} : tasks[r].at # "refresh"

\* get_access_token of command p, up to its return with the cached token or to
\* its POST
TaskEnter(p) ==
    /\ tasks[p].at = "pending"
    /\ Runnable(p)
    /\ tasks' = [tasks EXCEPT ![p] =
                    IF CacheFresh THEN [at |-> "done", observed |-> cache, refreshed |-> FALSE]
                    ELSE [at |-> "refresh", observed |-> cache, refreshed |-> TRUE]]
    /\ UNCHANGED <<playlist, cache, now, pc, inv, calls, term, replies, prev, env, ext>>

\* get_access_token of command p, from the response of its POST on
TaskReturn(p) ==
    /\ tasks[p].at = "refresh"
    /\ \E st \in Outcomes :
        /\ calls' = Append(calls, Call("token", st, "", 0, <<>>, FALSE))
        /\ IF CallEnd(st) = "ok"
           THEN /\ cache' = [access |-> "tok", exp |-> now + TokenTTL]
                /\ tasks' = [tasks EXCEPT ![p].at = "done"]
           ELSE /\ tasks' = [tasks EXCEPT ![p].at = "failed"]
                /\ UNCHANGED cache
    /\ UNCHANGED <<playlist, now, pc, inv, term, replies, prev, env, ext>>

\* several commands arrived together, before an empty cache or a filled one
InitTasks ==
    /\ playlist = <<>>
    /\ cache \in {[access |-> None, exp |-> 0], [access |-> "tok", exp |-> TokenTTL]}
    /\ now = 0
    /\ pc = "idle"
    /\ inv = NoInv
    /\ calls = <<>>
    /\ term = "none"
    /\ replies = <<>>
    /\ prev = NoPrev
    /\ env = EnvSet
    /\ tasks = [p \in Tasks |-> NewTask]
    /\ ext = NoExt

NextTasks ==
    \/ \E p \in Tasks : TaskEnter(p)
    \/ \E p \in Tasks : TaskReturn(p)
    \/ Tick

SpecTasks == InitTasks /\ [][NextTasks]_vars

\* the playlist after another actor added one track somewhere or removed one entry
Edited(pl) ==
    {SubSeq(pl, 1, i - 1) \o <<x>> \o SubSeq(pl, i, Len(pl)) :
        i \in 1..(Len(pl) + 1), x \in TrackIds}
    \cup {SubSeq(pl, 1, i - 1) \o SubSeq(pl, i + 1, Len(pl)) : i \in 1..Len(pl)}

\* another actor edits the playlist while a handler runs; seen and always follow
\* the presence of the handler's track for as long as track_in_playlist runs
Edit ==
    /\ pc \in {"tok_scan", "page", "tok_add", "add", "tok_remove", "remove"}
    /\ ext.edits < MaxEdits
    /\ \E pl \in Edited(playlist) :
        /\ playlist' = pl
        /\ ext' = IF pc \in {"tok_scan", "page"}
                  THEN [edits |-> ext.edits + 1,
                        seen |-> ext.seen \/ inv.tr \in Range(pl),
                        always |-> ext.always /\ inv.tr \in Range(pl)]
                  ELSE [ext EXCEPT !.edits = ext.edits + 1]
    /\ UNCHANGED <<cache, now, pc, inv, calls, term, replies, prev, env, tasks>>

\* a handler that has just resolved its query to a track, as InitScan has it,
\* with a fresh token, the playlist open to edits of another actor
InitEdit ==
    /\ playlist \in SeqsUpTo(TrackIds, MaxLen)
    /\ cache = [access |-> "tok", exp |-> TokenTTL]
    /\ now = 0
    /\ pc = "tok_scan"
    /\ \E k \in {"add", "remove"}, id \in TrackIds :
          /\ inv = [NoInv EXCEPT !.kind = k, !.q = QLoveAbba, !.tr = id,
                                  !.absent0 = id \notin Range(playlist)]
          /\ calls = <<Call("token", 200, "", 0, <<>>, FALSE),
                       Call("search", 200, "", 0, <<id>>, FALSE)>>
          /\ ext = [edits |-> 0, seen |-> id \in Range(playlist),
                    always |-> id \in Range(playlist)]
    /\ term = "none"
    /\ replies = <<>>
    /\ prev = NoPrev
    /\ env = EnvSet
    /\ tasks = NoTasks

NextEdit ==
    \/ GetAccessToken
    \/ Page
    \/ Add
    \/ Remove
    \/ Edit

\* each HTTP call of the running handler comes back, or times out after 20 s;
\* the other actor edits when it likes
SpecEdit ==
    InitEdit /\ [][NextEdit]_vars /\ WF_vars(GetAccessToken) /\ WF_vars(Page)

\* handle_text from its search call on: any "title - artist" text, with a fresh
\* token, an answer drawn from the wider catalog, and a playlist of at most one track
InitScore ==
    /\ playlist \in {<<>>} \cup {<<id>> : id \in ScoreIds}
    /\ cache = [access |-> "tok", exp |-> TokenTTL]
    /\ now = 0
    /\ pc = "search"
    /\ \E q \in ScoreQueries :
          inv = [NoInv EXCEPT !.kind = "add", !.q = strip(q),
                              !.tid = extract_track_id_from_url(strip(q))]
    /\ calls = <<Call("token", 200, "", 0, <<>>, FALSE)>>
    /\ term = "none"
    /\ replies = <<>>
    /\ prev = NoPrev
    /\ env = EnvSet
    /\ tasks = NoTasks
    /\ ext = NoExt

NextScore ==
    \/ SearchIn(ScoreAnswers)
    \/ GetAccessToken
    \/ Page
    \/ Add

SpecScore == InitScore /\ [][NextScore]_vars

----------------------------------------------------------------------------
(* Properties *)

\* an invocation has ended (and none runs)
Done == pc = "idle" /\ term \notin {"none", "NoQuery"}

Mutations == {"add", "remove"}

PageCalls == SelectSeq(calls, LAMBDA c : c.op = "page")

\* C1: two add invocations in a row on the same query, resolved alike, with no
\* failing call: the first ends Added when the track was absent (AlreadyPresent
\* when it was there), the second ends AlreadyPresent, and at most one add call
\* is issued over the two; a query that does not resolve ends Unresolved twice.
C1_AddIdempotent ==
    (Done /\ Clean /\ inv.kind = "add" /\ prev.kind = "add"
          /\ prev.q = inv.q /\ prev.tr = inv.tr)
    => /\ prev.term = (IF prev.tr = None THEN "Unresolved"
                       ELSE IF prev.absent0 THEN "Added" ELSE "AlreadyPresent")
       /\ term = (IF inv.tr = None THEN "Unresolved" ELSE "AlreadyPresent")
       /\ prev.adds + Count("add") <= 1

C1_Witness ==
    /\ Done /\ Clean /\ inv.kind = "add" /\ prev.kind = "add"
    /\ prev.q = inv.q /\ prev.tr = inv.tr
    /\ prev.term = "Added" /\ term = "AlreadyPresent" /\ Len(PageCalls) >= 2

\* the scan of the current invocation ran to the last page without a match
\* before call i
ScanFalseBefore(i) ==
    \E j \in 1..(i - 1) :
        /\ calls[j].op = "page" /\ calls[j].status = 200 /\ ~calls[j].next
        /\ \A k \in 1..j : calls[k].op = "page" => inv.tr \notin Range(calls[k].items)

\* what C2 says of the calls of an add invocation, but for when the add is due
C2_Rest ==
    /\ \A i \in 1..Len(calls) :
          calls[i].op = "add" =>
              /\ inv.tr # None /\ calls[i].arg = inv.tr
              /\ inv.inpl = "False" /\ ScanFalseBefore(i)
    /\ term \in {"Unresolved", "AlreadyPresent"} =>
          \A i \in 1..Len(calls) : calls[i].op \notin Mutations
    /\ term = "Unresolved" => Count("page") = 0
    /\ Count("add") <= 1
    /\ Count("remove") = 0

\* the token refresh that add_to_playlist starts with failed
AddTokenFailed ==
    /\ calls # <<>>
    /\ calls[Len(calls)].op = "token"
    /\ calls[Len(calls)].status \notin 200..299

\* C2 (as amended): in an add invocation the add call is issued only for the
\* resolved track and only after the membership scan for it returned false; once
\* the scan has returned false the add call is issued, unless the token refresh
\* that precedes it fails; an Unresolved or AlreadyPresent invocation issues no
\* mutating call, an Unresolved one no page fetch, and no add invocation issues
\* two add calls or a remove call.
C2_AddOnlyAfterScanFalse ==
    inv.kind = "add" =>
        /\ C2_Rest
        /\ (Done /\ inv.inpl = "False" /\ ~AddTokenFailed) => Count("add") = 1

\* C2 (as claimed): the add call is issued if and only if the query resolved and
\* the scan returned false.
C2_Original ==
    inv.kind = "add" =>
        /\ C2_Rest
        /\ (Done /\ inv.inpl = "False") => Count("add") = 1

C2_Witness ==
    /\ Done /\ inv.kind = "add" /\ term = "Added"
    /\ Count("add") = 1 /\ Len(PageCalls) >= 2

\* C3: no step of an add or remove invocation, whatever its calls come back
\* with, takes a playlist that holds every track id at most once to one that
\* holds an id twice.
C3_NoDuplicates == [][NoDup(playlist) => NoDup(playlist')]_vars

C3_Witness ==
    /\ Done /\ term = "Failed" /\ Count("add") = 1
    /\ NoDup(playlist) /\ Len(playlist) >= 3

\* what C4 says of a remove whose resolved track the scan does not find
C4_NotPresentCase ==
    /\ term = "NotPresent" =>
          /\ inv.tr # None /\ inv.inpl = "False" /\ inv.tr \notin Range(playlist)
          /\ \A i \in 1..Len(calls) : calls[i].op \notin Mutations
    /\ term = "Removed" => inv.inpl = "True" /\ Count("remove") = 1

CatalogOps == {"getTrack", "search", "page", "add", "remove"}

\* C5 (as claimed): a call that fails (no response, or a status that is not a
\* success) is the last call of its invocation, and the invocation ends Failed.
C5_NothingAfterFailure ==
    /\ \A i \in 1..Len(calls) : calls[i].status \notin 200..299 => i = Len(calls)
    /\ (Done /\ ~Clean) => term = "Failed"

\* C6 (as claimed): an invocation one of whose catalog calls came back with a
\* status that is not a success ends Failed, never Unresolved or NotPresent.
C6_HttpFailureEndsFailed ==
    (Done /\ \E i \in 1..Len(calls) :
                /\ calls[i].op \in CatalogOps
                /\ calls[i].status \notin {0} \cup 200..299)
    => term = "Failed"

\* C7 (as claimed): a query that carries a track id issues no search call, and
\* its resolution ends with the track of that id or in Failed.
C7_DirectBypassesSearch ==
    Truthy(inv.tid) =>
        /\ Count("search") = 0
        /\ pc \notin {"tok_search", "getTrack"} => (inv.tr = inv.tid \/ term = "Failed")

\* no mutating call has been issued in the current invocation
Unmutated == \A i \in 1..Len(calls) : calls[i].op \notin Mutations

RECURSIVE Concat(_)
Concat(ss) == IF ss = <<>> THEN <<>> ELSE Head(ss).items \o Concat(Tail(ss))

\* C8: the scan issues no mutating call, fetches the pages in cursor order from
\* the first, fetches none after the first page that holds the track, and,
\* when no fetch fails, returns true exactly when the track is in the playlist
\* (in the pages it fetched); when it returns false it has read the whole
\* playlist.
C8_ContainsExact ==
    /\ \A i, j \in 1..Len(calls) :
          (calls[i].op \in Mutations /\ calls[j].op = "page") => j < i
    /\ \A k \in 1..Len(PageCalls) :
          /\ PageCalls[k].off = (k - 1) * PageLimit
          /\ inv.tr \in Range(PageCalls[k].items) => k = Len(PageCalls)
    /\ (inv.inpl # None /\ Unmutated) =>
          /\ (inv.inpl = "True") = (inv.tr \in Range(playlist))
          /\ (inv.inpl = "True") = (\E k \in 1..Len(PageCalls) :
                                        inv.tr \in Range(PageCalls[k].items))
          /\ inv.inpl = "False" => Concat(PageCalls) = playlist

C8_Witness ==
    /\ inv.inpl = "True" /\ Unmutated
    /\ Len(PageCalls) = 2 /\ Len(playlist) > 2 * PageLimit

Scanning == pc \in {"tok_scan", "page"}

\* what C9 says of the fetches of a scan
C9_Safe ==
    /\ \A j, k \in 1..Len(PageCalls) : j < k => PageCalls[j].off < PageCalls[k].off
    /\ \A k \in 1..(Len(PageCalls) - 1) : PageCalls[k].status = 200 /\ PageCalls[k].next
    /\ Len(PageCalls) <= (Len(playlist) \div PageLimit) + 1
    /\ (playlist = <<>> /\ inv.inpl # None) => inv.inpl = "False" /\ Len(PageCalls) = 1

\* C9: a scan of a finite playlist returns (true, false or a failure); it fetches
\* each page at most once, follows a next link only from a page that carried
\* one, and over the empty playlist returns false after one fetch.
C9_ScanTerminates == []C9_Safe /\ (Scanning ~> ~Scanning)

C9_Witness ==
    /\ inv.inpl = "False" /\ Len(PageCalls) >= 2 /\ Len(playlist) >= 2

\* the items and scores of search call c for the current query
ScoreOf(id) == score_match(inv.q, TrackOf(id).name, TrackOf(id).artists)

\* C10: after a search that came back with candidates, the resolved track is
\* the first candidate, in the order of the answer, of maximum score, if that
\* score is at least 1.0 (20 twentieths); with a lower maximum, or no candidate,
\* nothing is resolved and the invocation ends Unresolved, not Failed.
C10_Selection ==
    \A i \in 1..Len(calls) :
       (calls[i].op = "search" /\ calls[i].status = 200) =>
          LET ids == calls[i].items
          IN  IF ids = <<>> \/ \A k \in 1..Len(ids) : ScoreOf(ids[k]) < 20
              THEN inv.tr = None /\ term = "Unresolved"
              ELSE \E k \in 1..Len(ids) :
                      /\ inv.tr = ids[k]
                      /\ \A j \in 1..Len(ids) : ScoreOf(ids[j]) <= ScoreOf(ids[k])
                      /\ \A j \in 1..(k - 1) : ScoreOf(ids[j]) < ScoreOf(ids[k])

C10_Witness ==
    \E i \in 1..Len(calls) :
       /\ calls[i].op = "search" /\ Len(calls[i].items) = 2
       /\ ScoreOf(calls[i].items[1]) = ScoreOf(calls[i].items[2])
       /\ ScoreOf(calls[i].items[1]) >= 20
       /\ inv.tr = calls[i].items[1]

----------------------------------------------------------------------------
(* C11 *)

NoFlag(q) == Flags \cap Range(tokenize(q)) = {}

\* b is a with " (Live)" added to the title, by the same artists
LivePair(a, b) == b.artists = a.artists /\ b.name = a.name \o <<" ", "(", "Live", ")">>

\* C11: for a query without flag word and two candidates of the same artists whose
\* titles differ only by an added "(Live)", score_match scores the live one
\* strictly lower, and a search answered with both never returns the live one
C11_LiveNeverPreferred ==
    \A i \in 1..Len(calls) : \A a, b \in ScoreCatalog :
        (/\ calls[i].op = "search"
         /\ NoFlag(inv.q)
         /\ LivePair(a, b)
         /\ {a.id, b.id} \subseteq Range(calls[i].items))
        => /\ score_match(inv.q, b.name, b.artists) < score_match(inv.q, a.name, a.artists)
           /\ inv.tr # b.id

----------------------------------------------------------------------------
(* C12 *)

\* the search of the current invocation came back with this track alone
SoleCandidate(tr) ==
    \E i \in 1..Len(calls) :
        calls[i].op = "search" /\ calls[i].status = 200 /\ calls[i].items = <<tr.id>>

\* C12: for a text "title - artist" and a candidate with that title by that
\* artist, the score is at least the threshold; when the search returns that
\* candidate alone it is the track resolved, and the invocation, if no call of
\* it fails and the playlist did not hold the track, ends Added
C12_ExactMatchAccepted ==
    \A tr \in ScoreCatalog :
        inv.q = TitleArtist(tr)
        => /\ score_match(inv.q, tr.name, tr.artists) >= Threshold
           /\ SoleCandidate(tr)
              => /\ inv.tr = tr.id
                 /\ (Done /\ Clean /\ inv.absent0) => term = "Added"

----------------------------------------------------------------------------
(* C13 *)

\* the last call so far is a search that came back with no item
EmptyAnswerLast ==
    /\ calls # <<>>
    /\ calls[Len(calls)].op = "search"
    /\ calls[Len(calls)].status = 200
    /\ calls[Len(calls)].items = <<>>

----------------------------------------------------------------------------
(* C14 *)

Terminal == {"Added", "Removed", "AlreadyPresent", "NotPresent", "Unresolved", "Failed"}

\* the messages that report a terminal state
MessagesOf(state) ==
    CASE state = "Unresolved" -> {"NotFound"}
      [] state = "Failed" -> {"ErrorHTTP", "Error"}
      [] OTHER -> {state}

\* an add or remove invocation with a non-empty query has begun
Invoked == inv.kind \in {"add", "remove"} /\ inv.q # <<>>

\* C14: an invocation with a non-empty query sends nothing while it runs, and
\* has, once it returned, one terminal state and one reply, the one of that
\* state; a call that came back with an HTTP error status is the last of its
\* invocation, which ends Failed with that status code in the reply
C14_OneReplyPerOutcome ==
    Invoked
    => /\ pc # "idle" => term = "none" /\ replies = <<>>
       /\ pc = "idle"
          => /\ term \in Terminal
             /\ Len(replies) = 1
             /\ replies[1].msg \in MessagesOf(term)
             /\ (inv.kind = "add" => term # "Removed" /\ term # "NotPresent")
             /\ (inv.kind = "remove" => term # "Added" /\ term # "AlreadyPresent")
       /\ \A i \in 1..Len(calls) :
             raise_for_status(calls[i].status)
             => /\ i = Len(calls)
                /\ term = "Failed"
                /\ replies = <<Reply("ErrorHTTP", calls[i].status, None)>>

C14_Witness ==
    /\ Invoked
    /\ inv.kind = "remove"
    /\ term = "Failed"
    /\ Len(calls) >= 3
    /\ calls[Len(calls)].op = "page"
    /\ calls[Len(calls)].status = 404
    /\ replies = <<Reply("ErrorHTTP", 404, None)>>

----------------------------------------------------------------------------
(* C15 *)

\* a setting is absent or blank
Blank(name) == name \notin DOMAIN env \/ strip(env[name]) = <<>>

\* the handlers are registered
Registered == pc \notin {"boot", "crashed"}

----------------------------------------------------------------------------
(* C16 *)

\* the positions of the page fetches among the calls
PageAt == {j \in 1..Len(calls) : calls[j].op = "page"}

\* C16: a remove invocation issues no add call and at most one remove call; the
\* remove call names the resolved track, comes after every page fetch of the
\* invocation, and one of those pages held the track; when the scan returned
\* false the invocation has ended NotPresent without a mutating call, and
\* NotPresent is only reached that way
C16_RemoveGuardedByScan ==
    inv.kind = "remove"
    => /\ Count("add") = 0
       /\ Count("remove") <= 1
       /\ \A i \in 1..Len(calls) :
             calls[i].op = "remove"
             => /\ calls[i].arg = inv.tr
                /\ inv.inpl = "True"
                /\ \A j \in PageAt : j < i
                /\ \E j \in PageAt :
                      calls[j].status = 200 /\ inv.tr \in Range(calls[j].items)
       /\ inv.inpl = "False"
          => /\ term = "NotPresent"
             /\ pc = "idle"
             /\ Count("remove") = 0
       /\ term = "NotPresent" => inv.tr # None /\ inv.inpl = "False"

C16_Witness ==
    /\ inv.kind = "remove"
    /\ term = "Removed"
    /\ Cardinality(PageAt) = 2
    /\ calls[Len(calls)].op = "remove"
    /\ inv.tr \notin Range(playlist)

----------------------------------------------------------------------------
(* C17 *)

TokenPoints == {"tok_search", "tok_scan", "tok_add", "tok_remove"}

\* the cache is empty, or the time is at or past the cached expiry
Stale == cache.access = None \/ now >= cache.exp

\* the last call so far is a refresh that failed
RefreshFailedLast ==
    /\ calls # <<>>
    /\ calls[Len(calls)].op = "token"
    /\ calls[Len(calls)].status \notin 200..299

\* one call of get_access_token, from entry to return or exception
TokenStepOk ==
    IF Stale
    THEN /\ calls' = Append(calls, calls'[Len(calls')])
         /\ calls'[Len(calls')].op = "token"
         /\ IF calls'[Len(calls')].status \in 200..299
            THEN /\ cache' = [access |-> "tok", exp |-> now + 3300]
                 /\ pc' # "idle" /\ term' = "none"
            ELSE /\ cache' = cache
                 /\ pc' = "idle" /\ term' = "Failed"
    ELSE /\ calls' = calls
         /\ cache' = cache
         /\ pc' # "idle" /\ term' = "none"

\* C17 (as amended): the cache starts empty; get_access_token issues a refresh
\* call exactly when the cache is empty or the time has reached the cached
\* expiry, and otherwise returns the cached token without a call; a refresh that
\* succeeds stores the token with expiry now + 3300; one that fails leaves the
\* cache as it was and ends the invocation Failed with no further call; nothing
\* else writes the cache; and the invocation after a failed refresh finds the
\* cache stale, so that it refreshes again
C17_TokenCacheLifecycle ==
    /\ cache = [access |-> None, exp |-> 0]
    /\ [][/\ (pc \in TokenPoints /\ pc' # pc) => TokenStepOk
          /\ pc \notin TokenPoints => cache' = cache
          /\ RefreshFailedLast => pc = "idle" /\ term = "Failed" /\ Stale
          /\ (RefreshFailedLast /\ pc' = "tok_search") => Stale']_vars

\* C17 as stated: a failed refresh ends the invocation before any catalog call
C17_Original ==
    RefreshFailedLast => \A i \in 1..Len(calls) : calls[i].op \notin CatalogOps

\* an expired token is kept by a failed refresh, after the search of the same invocation
C17_Witness ==
    /\ RefreshFailedLast
    /\ term = "Failed"
    /\ cache = [access |-> "tok", exp |-> TokenTTL]
    /\ now >= TokenTTL
    /\ Count("search") = 1
    /\ Count("token") = 2

----------------------------------------------------------------------------
(* C18 *)

\* the commands whose refresh call is in flight
InFlight == {p \in Tasks : tasks[p].at = "refresh"}

----------------------------------------------------------------------------
(* C19 *)

\* C19, the safety part: with edits of another actor between the page fetches,
\* the scan fetches at offsets 0, L, 2L, ...; it returns true only for a track
\* that was in the playlist at some time during the scan; it returns false for a
\* track that was in the playlist during the whole scan only when an edit took
\* place (an entry missed); and the add call is issued for a track that is in
\* the playlist only when an edit took place during the invocation
C19_Safe ==
    /\ \A j \in 1..Len(PageCalls) : PageCalls[j].off = (j - 1) * PageLimit
    /\ inv.inpl = "True" => ext.seen
    /\ (inv.inpl = "False" /\ ext.always) => ext.edits > 0
    /\ (pc \in {"tok_add", "add"} /\ inv.tr \in Range(playlist)) => ext.edits > 0

\* C19: the scan stays sound in that sense, and it terminates
C19_ScanUnderEdits == []C19_Safe /\ (Scanning ~> ~Scanning)

\* the track was in the playlist all along, the removal of an earlier entry made
\* the scan miss it, and the add put it in a second time
C19_Witness ==
    /\ term = "Added"
    /\ inv.inpl = "False"
    /\ ext.always
    /\ ext.edits = 1
    /\ Cardinality(PageAt) = 2
    /\ ~NoDup(playlist)
====
